---------------------------- MODULE Spec2Model ----------------------------
(***************************************************************************)
(* The hybrid transaction pool of src/packages/core-tester-cli/bin/tester  *)
(* (lines 250-695): an in-memory cache (mem.byId, mem.idsBySender,         *)
(* mem.idsByExpiration, mem.dirty) written back to an on-disk table every  *)
(* 64 dirty changes and on disconnect.                                     *)
(*                                                                         *)
(* Every public method is one action.  The methods are async; Spec and the *)
(* specifications beside it run each call to completion before the next    *)
(* one starts (the callers await them), and SpecAsync lets calls overlap at *)
(* their awaits.  A Durable Store call may fail, which ends the method with *)
(* an exception at that call.                                              *)
(***************************************************************************)
EXTENDS Integers, Sequences, FiniteSets, TLC

(***************************************************************************)
(* Bounds of the model.                                                    *)
(***************************************************************************)
\* Transaction ids 1..MaxIds are the inputs of Spec.
MaxIds == 3
\* The clock advances at most MaxTicks times, 2 s each time.
MaxTicks == 2
\* The Durable Store fails at most MaxFailures times in one behaviour.
MaxFailures == 1
\* SpecBulk uses the ids 1..SyncThreshold + BulkExtra, added in ascending order.
BulkExtra == 3
\* options.maxTransactionsPerSender is one of 1..MaxPerSender.
MaxPerSender == 2
\* SpecRange uses the ids 1..RangeIds.
RangeIds == 4
\* SpecAsync runs at most MaxTasks calls at a time.
MaxTasks == 2
\* SpecAsync starts no addTransaction that could make mem.idsByExpiration
\* longer than MaxEntries.
MaxEntries == 2

(***************************************************************************)
(* Program constants.                                                      *)
(***************************************************************************)
\* __memSyncToPermanentStorageIfNecessary: "added.size + removed.size >= 64"
SyncThreshold == 64

BulkIds == SyncThreshold + BulkExtra
PoolIds == 1..MaxIds

\* The value of a parameter that was not passed, and of Map.get on a missing key.
Undefined == "undefined"

(***************************************************************************)
(* The Transaction objects handed to the pool.  A transaction's id is the  *)
(* hash of its content, so the fields are functions of the id.  Ids 1 and  *)
(* 4 never expire (expiration = 0); the others have 2 s or 1 s left to     *)
(* live.  Odd ids are sent by "A", even ids by "B".                        *)
(***************************************************************************)
Senders == {"A", "B"}

Transaction(id) ==
    [class           |-> "Transaction",
     id              |-> id,
     senderPublicKey |-> IF id % 2 = 1 THEN "A" ELSE "B",
     timestamp       |-> 10,
     expiration      |-> CASE id \in {1, 4} -> 0
                           [] id % 3 = 2   -> 12
                           [] OTHER        -> 11,
     serialized      |-> <<"bytes", id>>,
     data            |-> <<"data", id>>]

Range(f) == {f[i] : i \in DOMAIN f}

Max(a, b) == IF a >= b THEN a ELSE b

VARIABLES
    byId,             \* mem.byId: the Map's keys in insertion order (value: Transaction(id))
    idsBySender,      \* mem.idsBySender: function sender -> set of ids; its DOMAIN is the Map's keys
    idsByExpiration,  \* mem.idsByExpiration: sequence of [expireAt, transactionId]
    expireAtOf,       \* the expireAt that __memAddTransaction computed for each pooled id
    added,            \* mem.dirty.added: the Set's elements in insertion order
    removed,          \* mem.dirty.removed
    db,               \* the rows of the transaction_pool table, by sequence
    now,              \* the wall clock, in ms
    failures,         \* how many Durable Store calls have failed so far
    last,             \* what the last call did: its outcome and the store calls it issued
    tasks             \* the calls that are suspended at an await (SpecAsync)

vars == <<byId, idsBySender, idsByExpiration, expireAtOf, added, removed, db, now,
          failures, last, tasks>>


(***************************************************************************)
(* A call in progress is a record: the pool's fields and the table (as the *)
(* variables), plus the call's own trace: err (the exception it ended      *)
(* with), calls (Durable Store calls made), issued (those calls),          *)
(* syncs (runs of __memSyncToPermanentStorage), checks (the calls of       *)
(* __memSyncToPermanentStorageIfNecessary: the dirty size each found and   *)
(* whether it synced), admitted (whether addTransaction got to             *)
(* __memAddTransaction).                                                   *)
(***************************************************************************)
Cur ==
    [byId |-> byId, idsBySender |-> idsBySender, idsByExpiration |-> idsByExpiration,
     expireAtOf |-> expireAtOf,
     added |-> added, removed |-> removed, db |-> db, failures |-> failures,
     err |-> "none", calls |-> 0, issued |-> <<>>, syncs |-> 0, checks |-> <<>>,
     events |-> <<>>, admitted |-> FALSE]

(***************************************************************************)
(* The Durable Store (an external collaborator): the transaction_pool      *)
(* table.  Each call is one atomic request.                                *)
(***************************************************************************)
\* The migration puts a unique index on id: a batch holding an id that is
\* already in the table is refused.
dbRefuses(rows, ids) == \E i \in DOMAIN ids : ids[i] \in Range(rows)

addTransactionsToPool(rows, ids) == rows \o ids

removeTransactionsFromPoolById(rows, ids) ==
    SelectSeq(rows, LAMBDA r : r \notin ids)

flushTransactionPool(rows) == <<>>

\* transactionsInRangeFromPool(0, size): all rows, by sequence.
transactionsInRangeFromPool(rows) == rows

\* One Durable Store call: it fails when the environment makes this call fail
\* (failAt counts the call within the method) or when the table refuses it.
StoreCall(s, failAt, kind, ids, refused, rows) ==
    LET n == s.calls + 1
        envFail == (n = failAt)
        ok == ~envFail /\ ~refused
    IN [s EXCEPT !.calls = n,
                 !.issued = Append(@, [call |-> kind, ids |-> ids, ok |-> ok]),
                 !.db = IF ok THEN rows ELSE @,
                 !.failures = IF envFail THEN @ + 1 ELSE @,
                 !.err = IF ok THEN @ ELSE "StoreError"]

(***************************************************************************)
(* Array helpers, as JavaScript defines them.                              *)
(***************************************************************************)
\* Array.prototype.findIndex: the 0-based index of the first match, or -1.
findIndex(a, id) ==
    IF \E i \in DOMAIN a : a[i].transactionId = id
    THEN (CHOOSE i \in DOMAIN a :
             /\ a[i].transactionId = id
             /\ \A j \in 1..(i - 1) : a[j].transactionId # id) - 1
    ELSE -1

\* Array.prototype.splice(index, 1): a negative index counts from the end.
splice(a, index) ==
    LET n == Len(a)
        start == IF index < 0 THEN Max(n + index, 0) ELSE IF index > n THEN n ELSE index
    IN [k \in 1..(IF start < n THEN n - 1 ELSE n) |->
            IF k <= start THEN a[k] ELSE a[k + 1]]

\* Array.prototype.sort with the comparator a.expireAt - b.expireAt: element i
\* goes behind every element with an earlier expireAt and behind the elements
\* with the same expireAt that stood before it.
\* (A faulty variant: it leaves the array as it is.)
sortByExpireAtNot(a) == a

sortByExpireAt(a) ==
    LET n == Len(a)
        place == [i \in 1..n |->
                     Cardinality({j \in 1..n :
                         \/ a[j].expireAt - a[i].expireAt < 0
                         \/ a[j].expireAt - a[i].expireAt = 0 /\ j < i}) + 1]
    IN [k \in 1..n |-> a[CHOOSE i \in 1..n : place[i] = k]]

(***************************************************************************)
(* __memAddTransaction(transaction, thisIsDBLoad)                          *)
(***************************************************************************)
\* A faulty variant: it marks the id as added without wiping a pending removal.
memAddTransactionNoCancel(s, transaction, thisIsDBLoad) ==
    LET id == transaction.id
        sender == transaction.senderPublicKey
        senders == s.idsBySender
        expireAt == now + (transaction.expiration - transaction.timestamp) * 1000
    IN [s EXCEPT
          !.byId = IF id \in Range(@) THEN @ ELSE Append(@, id),
          !.idsBySender =
              IF sender \notin DOMAIN senders
              THEN [x \in DOMAIN senders \cup {sender} |->
                        IF x = sender THEN {id} ELSE senders[x]]
              ELSE [senders EXCEPT ![sender] = @ \cup {id}],
          !.idsByExpiration =
              IF transaction.expiration > 0
              THEN sortByExpireAt(Append(@, [expireAt |-> expireAt, transactionId |-> id]))
              ELSE @,
          !.expireAtOf =
              IF transaction.expiration > 0
              THEN [x \in DOMAIN @ \cup {id} |-> IF x = id THEN expireAt ELSE @[x]]
              ELSE @,
          !.added = IF ~thisIsDBLoad /\ id \notin Range(@) THEN Append(@, id) ELSE @]

memAddTransaction(s, transaction, thisIsDBLoad) ==
    LET id == transaction.id
        sender == transaction.senderPublicKey
        senders == s.idsBySender
        expireAt == now + (transaction.expiration - transaction.timestamp) * 1000
    IN [s EXCEPT
          \* Map.set keeps the position of a key that is already there.
          !.byId = IF id \in Range(@) THEN @ ELSE Append(@, id),
          !.idsBySender =
              IF sender \notin DOMAIN senders
              THEN [x \in DOMAIN senders \cup {sender} |->
                        IF x = sender THEN {id} ELSE senders[x]]
              ELSE [senders EXCEPT ![sender] = @ \cup {id}],
          !.idsByExpiration =
              IF transaction.expiration > 0
              THEN sortByExpireAt(Append(@, [expireAt |-> expireAt, transactionId |-> id]))
              ELSE @,
          !.expireAtOf =
              IF transaction.expiration > 0
              THEN [x \in DOMAIN @ \cup {id} |-> IF x = id THEN expireAt ELSE @[x]]
              ELSE @,
          !.removed = IF ~thisIsDBLoad /\ id \in s.removed THEN @ \ {id} ELSE @,
          !.added = IF ~thisIsDBLoad /\ id \notin s.removed /\ id \notin Range(@)
                    THEN Append(@, id) ELSE @]

(***************************************************************************)
(* __memRemoveTransaction(id, senderPublicKey)                             *)
(***************************************************************************)
\* A faulty variant: it marks the id as removed even when its addition was
\* never synced.
memRemoveTransactionNoCancel(s, id, senderPublicKey) ==
    IF senderPublicKey = Undefined /\ id \notin Range(s.byId)
    THEN [s EXCEPT !.err = "TypeError"]
    ELSE
    LET sender == IF senderPublicKey = Undefined
                  THEN Transaction(id).senderPublicKey ELSE senderPublicKey
        senders == s.idsBySender
    IN [s EXCEPT
          !.idsByExpiration = splice(@, findIndex(@, id)),
          !.expireAtOf = [x \in DOMAIN @ \ {id} |-> @[x]],
          !.idsBySender = [x \in DOMAIN senders \ {sender} |-> senders[x]],
          !.byId = SelectSeq(@, LAMBDA x : x # id),
          !.added = SelectSeq(@, LAMBDA x : x # id),
          !.removed = @ \cup {id}]

memRemoveTransaction(s, id, senderPublicKey) ==
    IF senderPublicKey = Undefined /\ id \notin Range(s.byId)
    THEN \* this.mem.byId.get(id) is undefined: reading .senderPublicKey throws
         [s EXCEPT !.err = "TypeError"]
    ELSE
    LET sender == IF senderPublicKey = Undefined
                  THEN Transaction(id).senderPublicKey ELSE senderPublicKey
        senders == s.idsBySender
    IN [s EXCEPT
          !.idsByExpiration = splice(@, findIndex(@, id)),
          !.expireAtOf = [x \in DOMAIN @ \ {id} |-> @[x]],
          !.idsBySender = [x \in DOMAIN senders \ {sender} |-> senders[x]],
          !.byId = SelectSeq(@, LAMBDA x : x # id),
          !.added = SelectSeq(@, LAMBDA x : x # id),
          !.removed = IF id \in Range(s.added) THEN @ ELSE @ \cup {id}]

(***************************************************************************)
(* __memSyncToPermanentStorage and __memSyncToPermanentStorageIfNecessary  *)
(***************************************************************************)
\* A faulty variant: it clears each dirty set whether or not its call succeeded.
memSyncToPermanentStorageClearsAnyway(s, failAt) ==
    LET s0 == [s EXCEPT !.syncs = @ + 1]
        s1 == IF Len(s0.added) > 0
              THEN [StoreCall(s0, failAt, "insert", Range(s0.added),
                              dbRefuses(s0.db, s0.added),
                              addTransactionsToPool(s0.db, s0.added))
                      EXCEPT !.added = <<>>]
              ELSE s0
    IN IF s1.err # "none" THEN s1
       ELSE IF Cardinality(s1.removed) > 0
       THEN [StoreCall(s1, failAt, "delete", s1.removed, FALSE,
                       removeTransactionsFromPoolById(s1.db, s1.removed))
               EXCEPT !.removed = {}]
       ELSE s1

memSyncToPermanentStorage(s, failAt) ==
    LET s0 == [s EXCEPT !.syncs = @ + 1]
        s1 == IF Len(s0.added) > 0
              THEN LET c == StoreCall(s0, failAt, "insert", Range(s0.added),
                                      dbRefuses(s0.db, s0.added),
                                      addTransactionsToPool(s0.db, s0.added))
                   IN IF c.err = "none" THEN [c EXCEPT !.added = <<>>] ELSE c
              ELSE s0
    IN IF s1.err # "none" THEN s1
       ELSE IF Cardinality(s1.removed) > 0
       THEN LET c == StoreCall(s1, failAt, "delete", s1.removed, FALSE,
                               removeTransactionsFromPoolById(s1.db, s1.removed))
            IN IF c.err = "none" THEN [c EXCEPT !.removed = {}] ELSE c
       ELSE s1

\* A faulty variant: it syncs only past the threshold.
memSyncToPermanentStorageIfNecessaryLate(s, failAt) ==
    IF Len(s.added) + Cardinality(s.removed) > SyncThreshold
    THEN memSyncToPermanentStorage(s, failAt)
    ELSE s

memSyncToPermanentStorageIfNecessary(s, failAt) ==
    IF Len(s.added) + Cardinality(s.removed) >= SyncThreshold
    THEN memSyncToPermanentStorage(s, failAt)
    ELSE s

\* "await this.__memSyncToPermanentStorageIfNecessary()" at the end of a
\* mutation, with the call recorded in the trace.
syncIfNecessary(s, failAt) ==
    LET r == memSyncToPermanentStorageIfNecessary(s, failAt)
    IN [r EXCEPT !.checks = Append(@, [size |-> Len(s.added) + Cardinality(s.removed),
                                       synced |-> r.syncs > s.syncs])]

(***************************************************************************)
(* __purgeExpired: collect the ids at the front of mem.idsByExpiration     *)
(* whose expireAt is before now, then evict them one by one.               *)
(***************************************************************************)
\* The first loop: the ids before the first entry with expireAt >= now.
expiredIds(a) ==
    LET stop == {i \in DOMAIN a : a[i].expireAt >= now}
        n == IF stop = {} THEN Len(a)
             ELSE (CHOOSE i \in stop : \A j \in stop : i <= j) - 1
    IN [k \in 1..n |-> a[k].transactionId]

\* The expireAt of the entry that put id on the list of the first loop.
expireAtOfEntry(a, id) == a[findIndex(a, id) + 1].expireAt

\* One step of an eviction, recorded in the trace of the call.
Step(s, ev, e) ==
    [s EXCEPT !.events = Append(@, [ev |-> ev, id |-> e.id, expireAt |-> e.expireAt,
                                    payload |-> IF ev = "emit"
                                                THEN Transaction(e.id).data
                                                ELSE <<>>])]

\* A faulty variant of the eviction loop: it does not revert the transaction.
RECURSIVE purgeLoopNoRevert(_, _, _)
purgeLoopNoRevert(s, ids, failAt) ==
    IF ids = <<>> \/ s.err # "none" THEN s
    ELSE LET id == Head(ids)
         IN IF id \notin Range(s.byId)
            THEN [s EXCEPT !.err = "TypeError"]
            ELSE LET t == Transaction(id)
                     e == [id |-> id, expireAt |-> expireAtOfEntry(s.idsByExpiration, id)]
                     s1 == Step(s, "emit", e)
                     s3 == Step(memRemoveTransaction(s1, id, t.senderPublicKey),
                                "remove", e)
                     s4 == Step(syncIfNecessary(s3, failAt), "check", e)
                 IN purgeLoopNoRevert(s4, Tail(ids), failAt)

RECURSIVE purgeLoop(_, _, _)
purgeLoop(s, ids, failAt) ==
    IF ids = <<>> \/ s.err # "none" THEN s
    ELSE LET id == Head(ids)
         IN IF id \notin Range(s.byId)
            THEN \* transaction is undefined: reading transaction.data throws
                 [s EXCEPT !.err = "TypeError"]
            ELSE LET t == Transaction(id)
                     e == [id |-> id, expireAt |-> expireAtOfEntry(s.idsByExpiration, id)]
                     \* emitter.emit('transaction.expired', transaction.data)
                     s1 == Step(s, "emit", e)
                     \* this.walletManager.revertTransaction(transaction)
                     s2 == Step(s1, "revert", e)
                     s3 == Step(memRemoveTransaction(s2, id, t.senderPublicKey),
                                "remove", e)
                     s4 == Step(syncIfNecessary(s3, failAt), "check", e)
                 IN purgeLoop(s4, Tail(ids), failAt)

purgeExpired(s, failAt) == purgeLoop(s, expiredIds(s.idsByExpiration), failAt)

(***************************************************************************)
(* The public methods.                                                     *)
(***************************************************************************)
\* An argument of addTransaction that is not an instance of Transaction.
NotATransaction == [class |-> "Object"]

isTransaction(t) == t # NotATransaction

\* A faulty variant: it takes the transaction out again when the sync fails.
addTransactionRollsBack(s, transaction, failAt) ==
    IF ~isTransaction(transaction) THEN s
    ELSE LET s1 == purgeExpired(s, failAt)
             id == transaction.id
         IN IF s1.err # "none" THEN s1
            ELSE IF id \in Range(s1.byId) THEN s1
            ELSE LET s2 == memAddTransaction(s1, transaction, FALSE)
                     s3 == syncIfNecessary([s2 EXCEPT !.admitted = TRUE], failAt)
                 IN IF s3.err = "none" THEN s3
                    ELSE [memRemoveTransaction([s3 EXCEPT !.err = "none"], id,
                                               transaction.senderPublicKey)
                            EXCEPT !.err = s3.err]

\* A faulty variant: it does not look for the id in the pool.
addTransactionAgain(s, transaction, failAt) ==
    IF ~isTransaction(transaction) THEN s
    ELSE LET s1 == purgeExpired(s, failAt)
         IN IF s1.err # "none" THEN s1
            ELSE LET s2 == memAddTransaction(s1, transaction, FALSE)
                 IN syncIfNecessary([s2 EXCEPT !.admitted = transaction.id
                                                   \notin Range(s1.byId)], failAt)

addTransaction(s, transaction, failAt) ==
    IF ~isTransaction(transaction) THEN s
    ELSE LET s1 == purgeExpired(s, failAt)   \* transactionExists
             id == transaction.id
         IN IF s1.err # "none" THEN s1
            ELSE IF id \in Range(s1.byId) THEN s1
            ELSE LET s2 == memAddTransaction(s1, transaction, FALSE)
                 IN syncIfNecessary([s2 EXCEPT !.admitted = TRUE], failAt)

removeTransactionById(s, id, senderPublicKey, failAt) ==
    LET s1 == memRemoveTransaction(s, id, senderPublicKey)
    IN IF s1.err # "none" THEN s1
       ELSE syncIfNecessary(s1, failAt)

getPoolSize(s, failAt) == purgeExpired(s, failAt)

\* The value getPoolSize returns.
poolSize(s) == Len(s.byId)

\* The value getTransaction(id) returns, read from the pool it has swept.
getTransaction(s, id) ==
    IF id \in Range(s.byId) THEN Transaction(id) ELSE Undefined

\* The value transactionExists(id) returns.
transactionExists(s, id) == id \in Range(s.byId)

\* Buffer.prototype.toString('hex') of a serialized transaction.
toStringHex(buffer) == <<"hex", buffer[2]>>

\* The loop of getTransactions over mem.byId.values(): i counts the values
\* seen so far.
RECURSIVE eachValue(_, _, _, _, _, _)
eachValue(values, i, start, size, getJustId, result) ==
    IF values = <<>> \/ i >= start + size THEN result
    ELSE LET transaction == Transaction(Head(values))
         IN eachValue(Tail(values), i + 1, start, size, getJustId,
                      IF i >= start
                      THEN Append(result, IF getJustId THEN transaction.id
                                          ELSE toStringHex(transaction.serialized))
                      ELSE result)

\* A faulty variant of the loop: it leaves out the value at position start.
RECURSIVE eachValueAfter(_, _, _, _, _, _)
eachValueAfter(values, i, start, size, getJustId, result) ==
    IF values = <<>> \/ i >= start + size THEN result
    ELSE LET transaction == Transaction(Head(values))
         IN eachValueAfter(Tail(values), i + 1, start, size, getJustId,
                           IF i > start
                           THEN Append(result, IF getJustId THEN transaction.id
                                               ELSE toStringHex(transaction.serialized))
                           ELSE result)

getTransactionsAfter(s, start, size, getJustId) ==
    eachValueAfter(s.byId, 0, start, size, getJustId, <<>>)

\* The value getTransactions(start, size, getJustId) returns.
getTransactions(s, start, size, getJustId) ==
    eachValue(s.byId, 0, start, size, getJustId, <<>>)

\* The value getTransactionsIds(start, size) returns.
getTransactionsIds(s, start, size) == getTransactions(s, start, size, TRUE)

\* The value getSenderSize(senderPublicKey) returns.
getSenderSize(s, senderPublicKey) ==
    IF senderPublicKey \notin DOMAIN s.idsBySender THEN 0
    ELSE Cardinality(s.idsBySender[senderPublicKey])

\* The pool's options: the allow-list and the limit per sender.
Options ==
    [allowedSenders : {{}, {"B"}}, maxTransactionsPerSender : 1..MaxPerSender]

\* The value hasExceededMaxTransactions(transaction) returns.
hasExceededMaxTransactions(s, transaction, options) ==
    IF transaction.senderPublicKey \in options.allowedSenders THEN FALSE
    ELSE LET count == IF transaction.senderPublicKey \notin DOMAIN s.idsBySender
                      THEN 0
                      ELSE Cardinality(s.idsBySender[transaction.senderPublicKey])
         IN IF count > 0 THEN count >= options.maxTransactionsPerSender ELSE FALSE

\* The sweep that getSenderSize, hasExceededMaxTransactions, getTransaction,
\* getTransactions and transactionExists run before they read mem.
sweepThenRead(s, failAt) == purgeExpired(s, failAt)

\* removeTransactionsForSender(senderPublicKey): Array.from throws when the
\* sender has no entry in mem.idsBySender; the ids of a Set are visited in
\* insertion order, which is their order in mem.byId.
RECURSIVE removeEach(_, _, _)
removeEach(s, ids, failAt) ==
    IF ids = <<>> \/ s.err # "none" THEN s
    ELSE removeEach(removeTransactionById(s, Head(ids), Undefined, failAt),
                    Tail(ids), failAt)

removeTransactionsForSender(s, senderPublicKey, failAt) ==
    IF senderPublicKey \notin DOMAIN s.idsBySender
    THEN [s EXCEPT !.err = "TypeError"]
    ELSE removeEach(s, SelectSeq(s.byId,
                                 LAMBDA id : id \in s.idsBySender[senderPublicKey]),
                    failAt)

disconnect(s, failAt) == memSyncToPermanentStorage(s, failAt)

\* __memFlush
\* A faulty variant: it leaves the dirty sets as they are.
memFlushKeepsDirty(s) ==
    [s EXCEPT !.byId = <<>>, !.idsBySender = <<>>, !.idsByExpiration = <<>>,
              !.expireAtOf = <<>>]

memFlush(s) ==
    [s EXCEPT !.byId = <<>>, !.idsBySender = <<>>, !.idsByExpiration = <<>>,
              !.expireAtOf = <<>>, !.added = <<>>, !.removed = {}]

flush(s, failAt) ==
    LET s1 == memFlush(s)
    IN StoreCall(s1, failAt, "clear", {}, FALSE, flushTransactionPool(s1.db))

\* __memConstruct
memConstruct(s) ==
    [s EXCEPT !.byId = <<>>, !.idsBySender = <<>>, !.idsByExpiration = <<>>,
              !.expireAtOf = <<>>, !.added = <<>>, !.removed = {}]

\* __memLoadFromDB
\* A faulty variant: it adds the loaded transactions as new ones.
RECURSIVE memLoadFromDBAsNew(_, _)
memLoadFromDBAsNew(s, transactions) ==
    IF transactions = <<>> THEN s
    ELSE memLoadFromDBAsNew(memAddTransaction(s, Transaction(Head(transactions)), FALSE),
                            Tail(transactions))

RECURSIVE memLoadFromDB(_, _)
memLoadFromDB(s, transactions) ==
    IF transactions = <<>> THEN s
    ELSE memLoadFromDB(memAddTransaction(s, Transaction(Head(transactions)), TRUE),
                       Tail(transactions))

make(s) == memLoadFromDB(memConstruct(s), transactionsInRangeFromPool(s.db))

(***************************************************************************)
(* The actions: one call of a public method, run to completion.            *)
(***************************************************************************)
\* Where id is: "pool" (mem.byId), "added", "removed", "db".
Places(id) ==
    {p \in {"pool", "added", "removed", "db"} :
        \/ p = "pool" /\ id \in Range(byId)
        \/ p = "added" /\ id \in Range(added)
        \/ p = "removed" /\ id \in removed
        \/ p = "db" /\ id \in Range(db)}

\* Whether this call directly follows its counterpart: a removal that follows
\* the admission of the same id, or an addTransaction that follows the removal
\* of the same id from the pool, the earlier call having ended without an
\* exception and without a sync; or a make() that follows a disconnect() that
\* ended without an exception.
Follows(op, id) ==
    /\ last.id = id
    /\ last.err = "none"
    /\ \/ /\ last.syncs = 0
          /\ \/ op = "removeTransactionById" /\ last.op = "addTransaction"
                                             /\ last.admitted
             \/ op = "addTransaction" /\ last.op = "removeTransactionById"
                                      /\ "pool" \in last.pre
       \/ op = "make" /\ last.op = "disconnect"

\* What holds anything at all: the pool, the dirty sets, the table.
Holding ==
    {p \in {"pool", "added", "removed", "db"} :
        \/ p = "pool" /\ byId # <<>>
        \/ p = "added" /\ added # <<>>
        \/ p = "removed" /\ removed # {}
        \/ p = "db" /\ db # <<>>}

\* A slot of tasks that holds no call.
NoTask ==
    [op |-> "none", pc |-> "none", id |-> 0, sender |-> Undefined, ids |-> <<>>,
     ret |-> "none", toAdd |-> <<>>, toRemove |-> {}, exists |-> FALSE, err |-> "none"]

Idle(op) ==
    [op |-> op, id |-> 0, sender |-> Undefined, pre |-> {}, follows |-> FALSE,
     err |-> "none", admitted |-> FALSE, issued |-> <<>>, syncs |-> 0, checks |-> <<>>,
     events |-> <<>>]

Done(s, op, id, sender) ==
    /\ byId' = s.byId
    /\ idsBySender' = s.idsBySender
    /\ idsByExpiration' = s.idsByExpiration
    /\ expireAtOf' = s.expireAtOf
    /\ added' = s.added
    /\ removed' = s.removed
    /\ db' = s.db
    /\ failures' = s.failures
    /\ last' = [op |-> op, id |-> id, sender |-> sender,
                pre |-> IF op = "flush" THEN Holding ELSE Places(id),
                follows |-> Follows(op, id), err |-> s.err, admitted |-> s.admitted,
                issued |-> s.issued, syncs |-> s.syncs, checks |-> s.checks,
                events |-> s.events]
    /\ UNCHANGED <<now, tasks>>

\* Which store call of the method the environment makes fail (0: none).
FailAts == IF failures < MaxFailures THEN 0..2 ELSE {0}

AddTransactionOf(arguments) ==
    \E t \in arguments :
    \E failAt \in FailAts :
        Done(addTransaction(Cur, t, failAt), "addTransaction",
             IF isTransaction(t) THEN t.id ELSE 0, Undefined)

\* removeTransaction(transaction) passes the transaction's sender;
\* removeTransactionById(id) passes none.
RemoveTransactionOf(ids, hints) ==
    \E id \in ids :
    \E sender \in hints \cup {Transaction(id).senderPublicKey} :
    \E failAt \in FailAts :
        Done(removeTransactionById(Cur, id, sender, failAt), "removeTransactionById",
             id, sender)

AddTransaction ==
    AddTransactionOf({Transaction(id) : id \in PoolIds} \cup {NotATransaction})

RemoveTransaction == RemoveTransactionOf(PoolIds, {Undefined})

GetPoolSize ==
    \E failAt \in FailAts : Done(getPoolSize(Cur, failAt), "getPoolSize", 0, Undefined)

\* The reading methods: a sweep, then a value read from mem (the operator of
\* the method's name, for every argument).
ReadingMethods ==
    {"getSenderSize", "hasExceededMaxTransactions", "getTransaction",
     "getTransactions", "transactionExists"}

Read ==
    \E method \in ReadingMethods :
    \E failAt \in FailAts :
        Done(sweepThenRead(Cur, failAt), method, 0, Undefined)

RemoveTransactionsForSender ==
    \E sender \in Senders :
    \E failAt \in FailAts :
        Done(removeTransactionsForSender(Cur, sender, failAt),
             "removeTransactionsForSender", 0, sender)

Disconnect ==
    \E failAt \in FailAts : Done(disconnect(Cur, failAt), "disconnect", 0, Undefined)

Flush ==
    \E failAt \in FailAts : Done(flush(Cur, failAt), "flush", 0, Undefined)

\* The process ends (dirty changes that were not synced are lost) and a new
\* pool is made from the table.
Make == Done(make(Cur), "make", 0, Undefined)

Tick ==
    /\ now < MaxTicks * 2000
    /\ now' = now + 2000
    /\ last' = Idle("tick")
    /\ UNCHANGED <<byId, idsBySender, idsByExpiration, expireAtOf, added, removed, db,
                   failures, tasks>>

Init ==
    /\ byId = <<>>
    /\ idsBySender = <<>>
    /\ idsByExpiration = <<>>
    /\ expireAtOf = <<>>
    /\ added = <<>>
    /\ removed = {}
    /\ db = <<>>
    /\ now = 0
    /\ failures = 0
    /\ last = Idle("make")
    /\ tasks = [i \in 1..MaxTasks |-> NoTask]

Next ==
    \/ AddTransaction
    \/ RemoveTransaction
    \/ GetPoolSize
    \/ Disconnect
    \/ Flush
    \/ Make
    \/ Tick

Spec == Init /\ [][Next]_vars

(***************************************************************************)
(* SpecMem: the methods that work on the memory, with the reading methods  *)
(* and removeTransactionsForSender; the pool is neither synced on demand   *)
(* nor flushed nor made again.                                             *)
(***************************************************************************)
NextMem ==
    \/ AddTransaction
    \/ RemoveTransaction
    \/ RemoveTransactionsForSender
    \/ GetPoolSize
    \/ Read
    \/ Tick

SpecMem == Init /\ [][NextMem]_vars

(***************************************************************************)
(* SpecBulk: a bulk load, long enough to cross the sync threshold.  The    *)
(* ids 1..BulkIds are added in ascending order; the oldest transaction of  *)
(* the pool may be removed (removeTransaction) once the pool is one short  *)
(* of the threshold or the table holds rows; time passes once the last id  *)
(* has been added, and from then on the pool is only swept and emptied.    *)
(***************************************************************************)
UsedIds == Range(byId) \cup Range(db) \cup removed

maxOf(S) == IF S = {} THEN 0 ELSE LET x == CHOOSE y \in S : \A z \in S : z <= y IN x

NextId == maxOf(UsedIds) + 1

BulkAdd ==
    /\ NextId <= BulkIds
    /\ now = 0
    /\ AddTransactionOf({Transaction(NextId)})

BulkRemove ==
    /\ byId # <<>>
    /\ Len(byId) >= SyncThreshold - 1 \/ db # <<>>
    /\ RemoveTransactionOf({Head(byId)}, {})

BulkSweep == now > 0 /\ GetPoolSize

BulkTick == NextId > BulkIds /\ Tick

NextBulk ==
    \/ BulkAdd
    \/ BulkRemove
    \/ BulkSweep
    \/ BulkTick

SpecBulk == Init /\ [][NextBulk]_vars

(***************************************************************************)
(* The properties of the pool.                                             *)
(***************************************************************************)
Sender(id) == Transaction(id).senderPublicKey

ExpirationEntries(id) ==
    {i \in DOMAIN idsByExpiration : idsByExpiration[i].transactionId = id}

\* The ids some call of the next sync would carry, were it to run now.
NextSyncIds ==
    LET r == memSyncToPermanentStorage(Cur, 0)
    IN UNION {r.issued[i].ids : i \in DOMAIN r.issued}

\* C1: an id is in mem.idsBySender[s] exactly when mem.byId holds a
\* transaction with that id whose sender is s.
C1_SenderIndexConsistent ==
    \A id \in PoolIds : \A s \in Senders :
        (s \in DOMAIN idsBySender /\ id \in idsBySender[s])
            <=> (id \in Range(byId) /\ Sender(id) = s)

\* C2: a transaction of mem.byId with expiration > 0 has exactly one entry in
\* mem.idsByExpiration; one with expiration 0, and an id that is not in
\* mem.byId, has none.
C2_ExpirationIndexConsistent ==
    \A id \in PoolIds :
        Cardinality(ExpirationEntries(id)) =
            IF id \in Range(byId) /\ Transaction(id).expiration > 0 THEN 1 ELSE 0

\* C3: no id is in dirty.added and in dirty.removed at once.
C3_DirtyDisjoint == Range(added) \cap removed = {}

C3_Witness == added # <<>> /\ removed # {}

\* C4: an id of dirty.added is in the pool and not in the table; an id of
\* dirty.removed is in the table and not in the pool.
C4_DirtyReflectsStore ==
    /\ \A id \in Range(added) : id \in Range(byId) /\ id \notin Range(db)
    /\ \A id \in removed : id \in Range(db) /\ id \notin Range(byId)

\* The removal of T.id that directly follows the admission of T, no sync
\* having run in between or within the removal.
RemoveAfterAdd ==
    /\ last.op = "removeTransactionById"
    /\ last.follows
    /\ last.err = "none"
    /\ last.syncs = 0

\* C5, as amended: after addTransaction(T) and then the removal of T.id with
\* no sync in between, T.id is in neither dirty set and the next sync issues
\* no call for it, provided the addition was recorded in dirty.added; when
\* the addition cancelled a pending removal instead, the removal is pending
\* again and the next sync deletes T.id from the table.
C5_AddThenRemoveCancels ==
    RemoveAfterAdd =>
        IF "added" \in last.pre
        THEN /\ last.id \notin Range(added)
             /\ last.id \notin removed
             /\ last.id \notin NextSyncIds
        ELSE /\ last.id \notin Range(added)
             /\ last.id \in removed

C5_Witness ==
    /\ RemoveAfterAdd
    /\ "added" \in last.pre
    /\ last.id \notin Range(added) \cup removed
    /\ added # <<>>

\* C5, as stated: after addTransaction(T) and then the removal of T.id with
\* no sync in between, T.id is in neither dirty set and the next sync issues
\* no call for it.
C5_Original ==
    RemoveAfterAdd =>
        /\ last.id \notin Range(added)
        /\ last.id \notin removed
        /\ last.id \notin NextSyncIds

\* The addTransaction(T) that directly follows the removal of T.id from the
\* pool, T.id being in the table, no sync having run in between or within.
AddAfterRemove ==
    /\ last.op = "addTransaction"
    /\ last.follows
    /\ last.admitted
    /\ last.err = "none"
    /\ last.syncs = 0
    /\ "db" \in last.pre

\* C6: removing a transaction that is in the table and adding it again before
\* any sync leaves its id in neither dirty set, keeps its row, and the next
\* sync issues no call for it.
C6_RemoveThenAddCancels ==
    AddAfterRemove =>
        /\ last.id \notin Range(added)
        /\ last.id \notin removed
        /\ last.id \in Range(db)
        /\ last.id \notin NextSyncIds

\* C7: removing an id that is not in the pool changes nothing in memory and
\* raises no error.
C7_RemoveMissingIsNoOp ==
    [][(last'.op = "removeTransactionById" /\ "pool" \notin last'.pre) =>
          /\ last'.err = "none"
          /\ byId' = byId
          /\ idsBySender' = idsBySender
          /\ idsByExpiration' = idsByExpiration
          /\ added' = added
          /\ removed' = removed]_vars

\* C8: a mutation syncs exactly when the dirty sets hold 64 ids or more after
\* it: every sync check of a call runs the sync if and only if
\* |dirty.added| + |dirty.removed| >= 64 at that point, a call none of whose
\* checks ran the sync issues no store call, and a mutation that ended without
\* an exception leaves fewer than 64 dirty ids.
C8_ThresholdSync ==
    last.op \in {"addTransaction", "removeTransactionById", "getPoolSize"} =>
        /\ \A i \in DOMAIN last.checks :
               last.checks[i].synced <=> last.checks[i].size >= SyncThreshold
        /\ (\A i \in DOMAIN last.checks : ~last.checks[i].synced) =>
               last.issued = <<>>
        /\ last.syncs = Cardinality({i \in DOMAIN last.checks : last.checks[i].synced})
        /\ (last.checks # <<>> /\ last.err = "none") =>
               Len(added) + Cardinality(removed) < SyncThreshold

C8_Witness ==
    /\ last.op = "removeTransactionById"
    /\ last.err = "none"
    /\ \E i \in DOMAIN last.checks :
           last.checks[i].synced /\ last.checks[i].size = SyncThreshold
    /\ \E i \in DOMAIN last.issued : last.issued[i].call = "delete"
    /\ added = <<>> /\ removed = {}

\* The calls of one kind the last operation issued.
Issued(kind) == {i \in DOMAIN last.issued : last.issued[i].call = kind}

\* C9: a sync whose store call fails leaves the batch of that call in its
\* dirty set, so that the next sync submits it again; a batch whose call
\* succeeded is cleared, and a failed insert keeps the removals untouched.
C9_SyncFailureKeepsBatch ==
    last.op = "disconnect" =>
        /\ \A i \in Issued("insert") :
               IF last.issued[i].ok
               THEN added = <<>>
               ELSE /\ Range(added) = last.issued[i].ids
                    /\ Issued("delete") = {}
                    /\ last.err = "StoreError"
                    /\ last.issued[i].ids \subseteq NextSyncIds
        /\ \A i \in Issued("delete") :
               IF last.issued[i].ok
               THEN removed = {}
               ELSE /\ removed = last.issued[i].ids
                    /\ last.err = "StoreError"
                    /\ last.issued[i].ids \subseteq NextSyncIds
        /\ (last.err = "none") => (added = <<>> /\ removed = {})

C9_Witness ==
    /\ last.op = "disconnect"
    /\ last.err = "StoreError"
    /\ \E i \in Issued("insert") : ~last.issued[i].ok
    /\ added # <<>>
    /\ removed # {}

\* C10: an addTransaction whose sync fails raises the failure, and yet the
\* transaction stays admitted: it is in mem.byId, in its sender's set, in
\* mem.idsByExpiration when it expires, and the reads return it.
C10_FailedSyncKeepsAdmission ==
    (/\ last.op = "addTransaction"
     /\ last.admitted
     /\ \E i \in DOMAIN last.issued : ~last.issued[i].ok) =>
        /\ last.err = "StoreError"
        /\ last.id \in Range(byId)
        /\ Sender(last.id) \in DOMAIN idsBySender
        /\ last.id \in idsBySender[Sender(last.id)]
        /\ Transaction(last.id).expiration > 0 => ExpirationEntries(last.id) # {}
        /\ LET s == purgeExpired(Cur, 0)
           IN /\ transactionExists(s, last.id)
              /\ getTransaction(s, last.id) = Transaction(last.id)
              /\ last.id \in Range(getTransactions(s, 0, poolSize(s), TRUE))

C10_Witness ==
    /\ last.op = "addTransaction"
    /\ last.admitted
    /\ last.err = "StoreError"
    /\ \E i \in DOMAIN last.issued : ~last.issued[i].ok
    /\ last.id \in Range(byId)
    /\ Len(added) >= SyncThreshold

\* C11: when disconnect() completes and the store has never failed, both dirty
\* sets are empty and the table holds exactly the ids of mem.byId.
C11_ShutdownLosesNothing ==
    (last.op = "disconnect" /\ last.err = "none" /\ failures = 0) =>
        /\ added = <<>>
        /\ removed = {}
        /\ Range(db) = Range(byId)
        /\ Len(db) = Len(byId)

(***************************************************************************)
(* SpecRecovery: transactions are added, transactions of the pool are      *)
(* removed (by the caller or by the sweep), the pool is synced by          *)
(* disconnect() and made again from the table.                             *)
(***************************************************************************)
RemovePooled == RemoveTransactionOf(Range(byId), {Undefined})

NextRecovery ==
    \/ AddTransaction
    \/ RemovePooled
    \/ Disconnect
    \/ Make
    \/ Tick

SpecRecovery == Init /\ [][NextRecovery]_vars

\* The serialized payloads of the transactions of a pool.
Payloads(pool) == {Transaction(pool[i]).serialized : i \in DOMAIN pool}

\* C12: a make() that follows a disconnect() that completed yields a pool with
\* the ids and the serialized payloads of the pool that was synced, and with
\* both dirty sets empty.
C12_RecoveryRoundTrip ==
    [][(last.op = "disconnect" /\ last.err = "none" /\ last'.op = "make") =>
          /\ Range(byId') = Range(byId)
          /\ Len(byId') = Len(byId)
          /\ Payloads(byId') = Payloads(byId)
          /\ added' = <<>>
          /\ removed' = {}]_vars

C12_Witness ==
    /\ last.op = "make"
    /\ last.follows
    /\ Len(byId) >= 2
    /\ Range(byId) = Range(db)

\* The ids that are in the table or in the pool, but not in both.
Unsynced == (Range(db) \ Range(byId)) \cup (Range(byId) \ Range(db))

\* C13: between completed operations, the store never having failed, the ids
\* of the table and the ids of mem.byId differ exactly by the ids of
\* dirty.added and dirty.removed, which are fewer than 64.
C13_BoundedLoss ==
    (failures = 0 /\ last.err = "none") =>
        /\ Unsynced = Range(added) \cup removed
        /\ Cardinality(Unsynced) < SyncThreshold

\* The transactions of a sender that are in the pool.
PooledOf(sender) == {id \in Range(byId) : Sender(id) = sender}

\* C14: hasExceededMaxTransactions(tx) returns false for a sender of the
\* allow-list, and otherwise true exactly when the number of the sender's
\* transactions in the pool is at least maxTransactionsPerSender (and not 0).
C14_SenderThrottling ==
    (last.op = "hasExceededMaxTransactions" /\ last.err = "none") =>
        \A id \in PoolIds : \A options \in Options :
            hasExceededMaxTransactions(Cur, Transaction(id), options) =
                (/\ Sender(id) \notin options.allowedSenders
                 /\ Cardinality(PooledOf(Sender(id))) > 0
                 /\ Cardinality(PooledOf(Sender(id))) >= options.maxTransactionsPerSender)

\* The methods that sweep before they do anything else.
SweepingMethods == ReadingMethods \cup {"getPoolSize", "addTransaction"}

\* The pooled transactions whose expireAt is before now.
Expired == {id \in DOMAIN expireAtOf : id \in Range(byId) /\ expireAtOf[id] < now}

\* C15: when a sweeping method returns (addTransaction: of a Transaction), no
\* transaction whose expireAt is before the time of the sweep is in mem.byId,
\* and none is counted or returned.
C15_SweepGate ==
    (last.op \in SweepingMethods /\ last.err = "none"
        /\ (last.op = "addTransaction" => last.id # 0)) =>
        /\ Expired = {}
        /\ poolSize(Cur) = Cardinality(Range(byId) \ Expired)
        /\ \A id \in Expired :
               /\ ~transactionExists(Cur, id)
               /\ getTransaction(Cur, id) = Undefined
               /\ id \notin Range(getTransactions(Cur, 0, poolSize(Cur), TRUE))

\* The evictions of the last call, in the order of their notifications.
Evictions == SelectSeq(last.events, LAMBDA e : e.ev = "emit")

\* C16: mem.idsByExpiration is sorted ascending by expireAt in every state;
\* a sweep evicts in ascending order of expireAt, and when a sweeping method
\* returns, no entry whose expireAt is before now is left in the index.
C16_ExpirationOrdering ==
    /\ \A i, j \in DOMAIN idsByExpiration :
           i < j => idsByExpiration[i].expireAt <= idsByExpiration[j].expireAt
    /\ \A i, j \in DOMAIN Evictions :
           i < j => Evictions[i].expireAt <= Evictions[j].expireAt
    /\ \A i \in DOMAIN Evictions : Evictions[i].expireAt < now
    /\ (last.op \in SweepingMethods /\ last.err = "none"
           /\ (last.op = "addTransaction" => last.id # 0)) =>
           \A i \in DOMAIN idsByExpiration : idsByExpiration[i].expireAt >= now

\* A sweep that evicted t3 and then t2, which had been added in the order t2, t3.
C16_Witness ==
    /\ last.op \in SweepingMethods
    /\ last.err = "none"
    /\ Len(Evictions) = 2
    /\ Evictions[1].id = 3 /\ Evictions[2].id = 2
    /\ Evictions[1].expireAt < Evictions[2].expireAt
    /\ db = <<2, 3>>

\* The steps of an eviction, in the order of the code.
EvictionSteps == <<"emit", "revert", "remove", "check">>

\* C17: the trace of a sweep is a sequence of evictions, each one made of the
\* notification (with the transaction's data), the revert, the removal and the
\* sync check, in this order and for the same transaction; no transaction is
\* evicted twice, every eviction has its own sync check, and an evicted
\* transaction is no longer in the pool (unless this addTransaction admits it
\* again).
C17_EvictionProtocol ==
    LET n == Len(last.events)
    IN /\ n % 4 = 0
       /\ \A i \in 1..n :
              /\ last.events[i].ev = EvictionSteps[((i - 1) % 4) + 1]
              /\ last.events[i].id = last.events[i - ((i - 1) % 4)].id
              /\ last.events[i].ev = "emit" =>
                     last.events[i].payload = Transaction(last.events[i].id).data
       /\ \A i, j \in DOMAIN Evictions : i # j => Evictions[i].id # Evictions[j].id
       /\ Len(last.checks) >= Len(Evictions)
       /\ \A i \in DOMAIN Evictions :
              \/ Evictions[i].id \notin Range(byId)
              \/ last.op = "addTransaction" /\ last.admitted
                     /\ last.id = Evictions[i].id

C17_Witness ==
    /\ Len(Evictions) = 2
    /\ Len(last.checks) = 2
    /\ last.err = "none"
    /\ last.op = "getPoolSize"
    /\ byId # <<>>

\* C18: removeTransactionsForSender(senderKey), the store never having failed,
\* completes; afterwards no transaction of mem.byId has that sender,
\* getSenderSize(senderKey) is 0, and the transactions of the other senders
\* are in the pool as before.
C18_RemoveForSender ==
    [][(last'.op = "removeTransactionsForSender" /\ failures' = 0) =>
          /\ last'.err = "none"
          /\ \A id \in Range(byId') : Sender(id) # last'.sender
          /\ last'.sender \notin DOMAIN idsBySender'
                 \/ idsBySender'[last'.sender] = {}
          /\ SelectSeq(byId', LAMBDA id : Sender(id) # last'.sender)
                 = SelectSeq(byId, LAMBDA id : Sender(id) # last'.sender)]_vars

\* The memory and the table.
Kept == <<byId, idsBySender, idsByExpiration, added, removed, db>>

\* C19: an addTransaction that admits nothing (its argument is not a
\* Transaction, or its id is in the pool) changes neither the memory nor the
\* table beyond what its sweep does: nothing at all, and without an
\* exception, when the argument is not a Transaction or when no entry of
\* mem.idsByExpiration is due, and otherwise what the sweep alone does, with
\* an exception only if the sweep raises it.
C19_RejectedAddNoEffect ==
    [][(last'.op = "addTransaction" /\ ~last'.admitted) =>
          /\ (last'.id = 0 \/ expiredIds(idsByExpiration) = <<>>) =>
                 (Kept' = Kept /\ last'.err = "none")
          /\ last'.id # 0 =>
                 \E failAt \in 0..2 :
                     LET s == purgeExpired(Cur, failAt)
                     IN /\ Kept' = <<s.byId, s.idsBySender, s.idsByExpiration,
                                      s.added, s.removed, s.db>>
                        /\ last'.err = s.err]_vars

C19_Witness ==
    /\ last.op = "addTransaction"
    /\ ~last.admitted
    /\ last.err = "none"
    /\ last.id \in Range(byId)
    /\ last.id \notin Range(added)
    /\ Evictions = <<>>

(***************************************************************************)
(* SpecRange: pools of up to RangeIds transactions, added in any order,    *)
(* removed and added again, and read.                                      *)
(***************************************************************************)
RangeAdd == AddTransactionOf({Transaction(id) : id \in 1..RangeIds})

NextRange ==
    \/ RangeAdd
    \/ RemovePooled
    \/ Read

SpecRange == Init /\ [][NextRange]_vars

\* The arguments of getTransactions.
Starts == 0..(RangeIds + 1) \cup {10}
Sizes == 0..(RangeIds + 1)

Min(a, b) == IF a <= b THEN a ELSE b

\* The entries of mem.byId at the 0-based positions start .. start + size - 1.
InRange(start, size) ==
    [k \in 1..Max(0, Min(size, Len(byId) - start)) |-> byId[start + k]]

\* C20: getTransactions(start, size, getJustId) returns the entries of mem.byId
\* at the 0-based positions start .. start + size - 1, in insertion order: the
\* ids or the serialized payloads in hex; with the ids <<1, 2, 3, 4>>,
\* (1, 2) gives <<2, 3>>, (3, 5) gives <<4>> and (10, 1) gives <<>>.  A
\* transaction that was admitted (again) is at the last position.
C20_RangeRead ==
    /\ last.op = "getTransactions" /\ last.err = "none" =>
           /\ \A start \in Starts : \A size \in Sizes :
                  /\ getTransactionsIds(Cur, start, size) = InRange(start, size)
                  /\ getTransactions(Cur, start, size, FALSE) =
                         [k \in DOMAIN InRange(start, size) |->
                              toStringHex(Transaction(InRange(start, size)[k]).serialized)]
                  /\ Len(getTransactionsIds(Cur, start, size)) <= size
                  /\ start >= poolSize(Cur) =>
                         getTransactionsIds(Cur, start, size) = <<>>
           /\ byId = <<1, 2, 3, 4>> =>
                  /\ getTransactionsIds(Cur, 1, 2) = <<2, 3>>
                  /\ getTransactionsIds(Cur, 3, 5) = <<4>>
                  /\ getTransactionsIds(Cur, 10, 1) = <<>>
    /\ last.op = "addTransaction" /\ last.admitted =>
           getTransactionsIds(Cur, Len(byId) - 1, 1) = <<last.id>>

C20_Witness ==
    /\ last.op = "getTransactions"
    /\ last.err = "none"
    /\ byId = <<1, 2, 3, 4>>
    /\ removed = {}
    /\ getTransactionsIds(Cur, 1, 2) = <<2, 3>>

\* C21: when flush() completes, mem.byId, mem.idsBySender, mem.idsByExpiration
\* and both dirty sets are empty and the table has been cleared by one call, so
\* that the next sync issues no call and a pool made from the table is empty.
C21_FlushWipesEverything ==
    (last.op = "flush" /\ last.err = "none") =>
        /\ byId = <<>>
        /\ idsBySender = <<>>
        /\ idsByExpiration = <<>>
        /\ added = <<>>
        /\ removed = {}
        /\ last.issued = <<[call |-> "clear", ids |-> {}, ok |-> TRUE]>>
        /\ db = <<>>
        /\ memSyncToPermanentStorage(Cur, 0).issued = <<>>
        /\ make(Cur).byId = <<>>
        /\ purgeExpired(Cur, 0).events = <<>>

\* A flush of a pool that held transactions, pending additions, pending
\* removals and rows.
C21_Witness ==
    /\ last.op = "flush"
    /\ last.err = "none"
    /\ last.pre = {"pool", "added", "removed", "db"}
    /\ byId = <<>>
    /\ db = <<>>

\* The ids the last call took out of the pool: the target of a removal, the
\* evictions of a sweep.
Targets(l) ==
    IF l.op = "removeTransactionById" THEN {l.id}
    ELSE {l.events[i].id : i \in DOMAIN l.events}

\* C24: a removal of a pooled X, by the caller or by the sweep, that ends
\* without an exception leaves every other transaction Y of the pool in mem.byId, in its
\* sender's set and with its entry of mem.idsByExpiration.
C24_RemoveTouchesOnlyTarget ==
    [][(/\ last'.op \in {"removeTransactionById", "getPoolSize"}
        /\ last'.op = "removeTransactionById" => "pool" \in last'.pre
        /\ last'.err = "none") =>
          \A y \in Range(byId) \ Targets(last') :
              /\ y \in Range(byId')
              /\ (Sender(y) \in DOMAIN idsBySender /\ y \in idsBySender[Sender(y)]) =>
                     (Sender(y) \in DOMAIN idsBySender' /\ y \in idsBySender'[Sender(y)])
              /\ {e \in Range(idsByExpiration) : e.transactionId = y}
                     = {e \in Range(idsByExpiration') : e.transactionId = y}]_vars

(***************************************************************************)
(* SpecSweep: transactions are added, transactions of the pool are removed *)
(* by the caller, the pool is swept, and time goes on (up to the bound).   *)
(***************************************************************************)
NextSweep ==
    \/ AddTransaction
    \/ RemovePooled
    \/ GetPoolSize
    \/ Tick

SpecSweep == Init /\ [][NextSweep]_vars /\ WF_vars(Tick)

\* A sweep has just run to its end.
Swept == last.op = "getPoolSize" /\ last.err = "none"

\* The last call took id out of the pool or never found it there.
Gone(id) == id \notin Range(byId) \/ id \in Targets(last)

\* C25: when the pool is swept again and again, a pooled transaction whose
\* expireAt has passed is eventually out of the pool (evicted, or removed by a
\* caller), whatever is added and removed in between.
C25_ExpirationEnforced ==
    \A id \in PoolIds :
        ([]<>Swept) => ((id \in Expired) ~> Gone(id))

(***************************************************************************)
(* SpecAsync: calls that overlap.  The methods are async functions: a call *)
(* runs until its next await, where it is suspended, and any suspended     *)
(* call may be the next to go on (one that awaits the store: when the      *)
(* store answers, and then the table changes).  An action is the code of   *)
(* one call between two awaits.  A task is a call in progress: op (the     *)
(* method), pc (the await it is suspended at), id and sender (its          *)
(* arguments), ids (what is left of the array its loop goes over), ret     *)
(* (the await its sync returns to), toAdd and toRemove (the batch of the   *)
(* store call in flight), exists (what transactionExists returned).  The   *)
(* notification and the revert of an eviction are not recorded here.       *)
(***************************************************************************)
Suspended(s, k, pc) == [mem |-> s, task |-> [k EXCEPT !.pc = pc]]

\* The call returns (err = "none") or throws.
Ended(s, k, err) == [mem |-> s, task |-> [k EXCEPT !.pc = "done", !.err = err]]

\* __memSyncToPermanentStorage from "if (this.mem.dirty.removed.size > 0)" to
\* its await, or to its end.
beginDelete(s, k) ==
    IF Cardinality(s.removed) > 0
    THEN Suspended(s, [k EXCEPT !.toRemove = s.removed], "delete")
    ELSE Suspended(s, k, k.ret)

\* __memSyncToPermanentStorage from its start to its first await.
beginSync(s, k) ==
    IF Len(s.added) > 0
    THEN Suspended(s, [k EXCEPT !.toAdd = s.added], "insert")
    ELSE beginDelete(s, k)

\* "await this.__memSyncToPermanentStorageIfNecessary()": the caller goes on
\* at ret.
awaitSyncIfNecessary(s, k, ret) ==
    IF Len(s.added) + Cardinality(s.removed) >= SyncThreshold
    THEN beginSync(s, [k EXCEPT !.ret = ret])
    ELSE Suspended(s, k, ret)

\* addTransactionsToPool(toAdd) has answered.
resumeInsert(s, k, failAt) ==
    LET c == StoreCall(s, failAt, "insert", Range(k.toAdd), dbRefuses(s.db, k.toAdd),
                       addTransactionsToPool(s.db, k.toAdd))
    IN IF c.err # "none" THEN Ended(c, k, c.err)
       ELSE beginDelete([c EXCEPT !.added = <<>>], [k EXCEPT !.toAdd = <<>>])

\* removeTransactionsFromPoolById(toRemove) has answered.
resumeDelete(s, k, failAt) ==
    LET c == StoreCall(s, failAt, "delete", k.toRemove, FALSE,
                       removeTransactionsFromPoolById(s.db, k.toRemove))
    IN IF c.err # "none" THEN Ended(c, k, c.err)
       ELSE Suspended([c EXCEPT !.removed = {}], [k EXCEPT !.toRemove = {}], k.ret)

\* __purgeExpired: one round of the eviction loop up to its await, or the
\* return to the caller's await.
purgeStep(s, k) ==
    IF k.ids = <<>>
    THEN Suspended(s, k, IF k.op = "addTransaction" THEN "exists" ELSE "done")
    ELSE LET id == Head(k.ids)
         IN IF id \notin Range(s.byId)
            THEN Ended(s, k, "TypeError")
            ELSE awaitSyncIfNecessary(
                     memRemoveTransaction(s, id, Transaction(id).senderPublicKey),
                     [k EXCEPT !.ids = Tail(@)], "purge")

\* __purgeExpired from its start: the first loop, then the first eviction.
startPurge(s, k) == purgeStep(s, [k EXCEPT !.ids = expiredIds(s.idsByExpiration)])

\* removeTransactionsForSender: one round of its loop up to its await, or its end.
forSenderStep(s, k) ==
    IF k.ids = <<>> THEN Ended(s, k, "none")
    ELSE LET r == memRemoveTransaction(s, Head(k.ids), Undefined)
         IN IF r.err # "none" THEN Ended(s, k, r.err)
            ELSE awaitSyncIfNecessary(r, [k EXCEPT !.ids = Tail(@)], "forSender")

\* A call from its start to its first await.
invoke(s, op, id, sender) ==
    LET k == [NoTask EXCEPT !.op = op, !.id = id, !.sender = sender]
    IN CASE op = "addTransaction" -> startPurge(s, k)
         [] op = "removeTransactionById" ->
                LET r == memRemoveTransaction(s, id, sender)
                IN IF r.err # "none" THEN Ended(s, k, r.err)
                   ELSE awaitSyncIfNecessary(r, k, "done")
         [] op = "removeTransactionsForSender" ->
                IF sender \notin DOMAIN s.idsBySender THEN Ended(s, k, "TypeError")
                ELSE forSenderStep(s,
                         [k EXCEPT !.ids = SelectSeq(s.byId,
                                               LAMBDA x : x \in s.idsBySender[sender])])
         [] op = "disconnect" -> beginSync(s, [k EXCEPT !.ret = "done"])

\* A suspended call from its await to its next one.
resume(s, k, failAt) ==
    CASE k.pc = "purge" -> purgeStep(s, k)
      [] k.pc = "exists" ->
             \* transactionExists: "return this.mem.byId.has(transactionId)"
             Suspended(s, [k EXCEPT !.exists = k.id \in Range(s.byId)], "checked")
      [] k.pc = "checked" ->
             IF k.exists THEN Ended(s, k, "none")
             ELSE awaitSyncIfNecessary(memAddTransaction(s, Transaction(k.id), FALSE),
                                       k, "done")
      [] k.pc = "forSender" -> forSenderStep(s, k)
      [] k.pc = "insert" -> resumeInsert(s, k, failAt)
      [] k.pc = "delete" -> resumeDelete(s, k, failAt)

\* The step r of the call in slot i.
Settle(i, r) ==
    /\ byId' = r.mem.byId
    /\ idsBySender' = r.mem.idsBySender
    /\ idsByExpiration' = r.mem.idsByExpiration
    /\ expireAtOf' = r.mem.expireAtOf
    /\ added' = r.mem.added
    /\ removed' = r.mem.removed
    /\ db' = r.mem.db
    /\ failures' = r.mem.failures
    /\ tasks' = [tasks EXCEPT ![i] = IF r.task.pc = "done" THEN NoTask ELSE r.task]
    /\ last' = [Idle(r.task.op) EXCEPT !.err = r.task.err]
    /\ UNCHANGED now

\* A new call takes the first free slot.
Invoke(op, id, sender) ==
    \E i \in 1..MaxTasks :
        /\ tasks[i] = NoTask
        /\ \A j \in 1..(i - 1) : tasks[j] # NoTask
        /\ Settle(i, invoke(Cur, op, id, sender))

\* The transactions of SpecAsync: t1 (no expiration) and t3 (expiring), both
\* of sender "A".
AsyncIds == {1, 3}

AsyncAdd ==
    \E id \in AsyncIds :
        /\ Len(idsByExpiration)
               + Cardinality({i \in 1..MaxTasks : tasks[i].op = "addTransaction"})
               < MaxEntries
        /\ Invoke("addTransaction", id, Undefined)

AsyncRemove == \E id \in Range(byId) : Invoke("removeTransactionById", id, Undefined)

AsyncRemoveForSender ==
    \E sender \in Senders : Invoke("removeTransactionsForSender", 0, sender)

AsyncDisconnect == Invoke("disconnect", 0, Undefined)

AsyncResume ==
    \E i \in 1..MaxTasks :
        /\ tasks[i] # NoTask
        /\ \E failAt \in IF failures < MaxFailures /\ tasks[i].pc \in {"insert", "delete"}
                         THEN 0..1 ELSE {0} :
               Settle(i, resume(Cur, tasks[i], failAt))

NextAsync ==
    \/ AsyncAdd
    \/ AsyncRemove
    \/ AsyncRemoveForSender
    \/ AsyncDisconnect
    \/ AsyncResume
    \/ Tick

SpecAsync == Init /\ [][NextAsync]_vars

\* C22: at every await of overlapping calls, and when they have ended, the
\* sender index matches mem.byId, every expiring transaction of the pool has
\* exactly one entry in mem.idsByExpiration (and no other id has one), and the
\* dirty sets are disjoint.
C22_ConsistentUnderInterleaving ==
    /\ C1_SenderIndexConsistent
    /\ C2_ExpirationIndexConsistent
    /\ C3_DirtyDisjoint

\* The store call of task i has just answered without an error.
Answered(i, pc) ==
    /\ tasks[i].pc = pc
    /\ tasks'[i] # tasks[i]
    /\ last'.err = "none"

\* C23: when the insert of a sync answers, the ids that were put in
\* dirty.added during the call are still in dirty.added, and an id of the
\* batch that was removed from the pool during the call is not left in the
\* table without being in dirty.removed; when the delete answers, the ids
\* that were put in dirty.removed during the call are still in dirty.removed.
C23_NoLostDirtyUpdates ==
    [][\A i \in 1..MaxTasks :
          /\ Answered(i, "insert") =>
                 /\ Range(added) \ Range(tasks[i].toAdd) \subseteq Range(added')
                 /\ \A id \in Range(tasks[i].toAdd) \ Range(byId) :
                        id \in Range(db') => id \in removed'
          /\ Answered(i, "delete") =>
                 removed \ tasks[i].toRemove \subseteq removed']_vars

=============================================================================
